---------------------------- MODULE Spec2Model ----------------------------
(***************************************************************************)
(* Model of the CoreSight trace subsystem of probe-rs:                     *)
(*   probe-rs/src/architecture/arm/component/mod.rs                        *)
(*                                                                         *)
(* setup_tracing is modelled one driver call per step, with the calls it   *)
(* issued in the current invocation kept in `log`.  read_trace_memory is   *)
(* modelled one tmc.read() per step, followed by the frame decoding.       *)
(* Every driver call may fail with a probe (transport) error.              *)
(***************************************************************************)
EXTENDS Naturals, Integers, Sequences, FiniteSets

VARIABLES
    components,   \* the ROM table component list handed to every operation
    pc,           \* position of setup_tracing in its body
    sink,         \* the TraceSink argument of the current setup_tracing call
    log,          \* driver calls issued by the current setup_tracing call
    result,       \* value returned by the last setup_tracing call
    polls,        \* tmc.ready() polls that returned false in this call
    reinvoked,    \* TRUE when an earlier setup_tracing call has returned
    tmc,          \* the TMC since disable_capture: "draining", "ready", or "hung"
    rpc,          \* position of read_trace_memory in its body
    fifo_size,    \* value tmc.fifo_size() returned to the current read
    fifoLive,     \* TRUE while the trace source still delivers words to the FIFO
    etf_trace,    \* raw bytes read from the FIFO by the current read
    out,          \* value returned by the last read_trace_memory call
    id,           \* the decoder's source ID when the last decoding finished
    prev_id,      \* the same at the end of the call before the last one
    frame_ids,    \* source IDs the last call handed to tmc::Frame::new, in order
    decoded,      \* (source ID, byte) pairs the frames of the last call yielded
    warned,       \* pairs the last call logged as unexpected
    demcr,        \* DEMCR of the target core
    dpc,          \* per caller: position of enable_tracing / disable_swv
    dop,          \* per caller: the operation it is in, "enable" or "disable"
    dword,        \* per caller: its local Demcr value
    dres,         \* per caller: value its last call returned
    dtx,          \* per caller: DEMCR transactions of its current call
    dhist,        \* the completed enable_tracing / disable_swv calls, in order
    base,         \* DEMCR before the first call
    interleaved,  \* a transaction fell between another call's read and its write
    wanted,       \* peripheral type of the last find_component call
    found,        \* value the last find_component call returned
    reg_call,     \* the last DebugRegister call: function, ADDRESS, unit
    reg_tx,       \* probe transactions that call issued
    reg_res       \* value that call returned

setupVars == <<pc, sink, log, result, polls, reinvoked, tmc>>

readVars ==
    <<rpc, fifo_size, fifoLive, etf_trace, out, id, prev_id, frame_ids, decoded, warned>>

demcrVars ==
    <<demcr, dpc, dop, dword, dres, dtx, dhist, base, interleaved>>

findVars == <<wanted, found>>

regVars == <<reg_call, reg_tx, reg_res>>

restVars == <<demcrVars, findVars, regVars>>

vars == <<components, setupVars, readVars, restVars>>

(***************************************************************************)
(* Bounds of the model.                                                    *)
(***************************************************************************)
\* longest component list
MaxComponents == 4
\* largest TPIU clock and baud rate of a SwoConfig
MaxClk == 2
\* most tmc.ready() polls that answer "not ready" in one call
MaxPolls == 2
\* width of the prescaler word (u32 in the source, scaled down)
WordBits == 4

\* largest value tmc.fifo_size() answers
MaxFifoSize == 17

Modulus == 2 ^ WordBits

(***************************************************************************)
(* Data.                                                                   *)
(***************************************************************************)
PeripheralType == {"Dwt", "Itm", "Tpiu", "Swo", "Tmc"}

SinkPeripherals == {"Tpiu", "Swo", "Tmc"}

SwoMode == {"Manchester", "Uart"}

SwoConfig ==
    [tpiu_clk : 0..MaxClk, baud : 0..MaxClk, mode : SwoMode,
     tpiu_continuous_formatting : BOOLEAN]

TraceSink ==
    [variant : {"Swo", "Tpiu"}, config : SwoConfig] \cup {[variant |-> "TraceMemory"]}

RECURSIVE SeqsUpTo(_, _)
SeqsUpTo(S, n) ==
    IF n = 0 THEN {<<>>}
    ELSE LET shorter == SeqsUpTo(S, n - 1)
         IN  shorter \cup {Append(s, x) : s \in {t \in shorter : Len(t) = n - 1}, x \in S}

Range(s) == {s[i] : i \in 1..Len(s)}

\* Component lists of at most MaxComponents components, one per peripheral type.
ComponentLists ==
    {cs \in SeqsUpTo(PeripheralType, MaxComponents) : Cardinality(Range(cs)) = Len(cs)}

Ok == [tag |-> "Ok"]
ComponentNotFound(peripheral_type) == [tag |-> "ComponentNotFound", kind |-> peripheral_type]
ProbeError == [tag |-> "ProbeError"]
Panic == [tag |-> "Panic"]
None == [tag |-> "None"]

(***************************************************************************)
(* find_component: index of the first component of the requested type,     *)
(* 0 when there is none (the Err(ComponentNotFound) case).                 *)
(***************************************************************************)
\* find_component returning the last component of the type instead.
find_component_last(cs, peripheral_type) ==
    LET hits == {i \in 1..Len(cs) : cs[i] = peripheral_type}
    IN  IF hits = {} THEN 0 ELSE CHOOSE i \in hits : \A j \in hits : i >= j

find_component(cs, peripheral_type) ==
    LET hits == {i \in 1..Len(cs) : cs[i] = peripheral_type}
    IN  IF hits = {} THEN 0 ELSE CHOOSE i \in hits : \A j \in hits : i <= j

Found(peripheral_type) == find_component(components, peripheral_type) # 0

\* read_trace_memory before its first call.
ReadIdle ==
    /\ rpc = "idle"
    /\ fifo_size = 0
    /\ fifoLive = TRUE
    /\ etf_trace = <<>>
    /\ out = None
    /\ id = 0
    /\ prev_id = 0
    /\ frame_ids = <<>>
    /\ decoded = <<>>
    /\ warned = <<>>

\* Callers that hold a handle to the core.
Callers == {"a", "b"}

\* enable_tracing / disable_swv before their first call.
DemcrIdle ==
    /\ dpc = [t \in Callers |-> "idle"]
    /\ dop = [t \in Callers |-> "none"]
    /\ dword = [t \in Callers |-> 0]
    /\ dres = [t \in Callers |-> None]
    /\ dtx = [t \in Callers |-> <<>>]
    /\ dhist = <<>>
    /\ base = demcr
    /\ interleaved = FALSE

\* find_component before its first call.
FindIdle ==
    /\ wanted = "none"
    /\ found = None

\* The DebugRegister functions before their first call.
RegIdle ==
    /\ reg_call = None
    /\ reg_tx = <<>>
    /\ reg_res = None

(***************************************************************************)
(* One driver call of setup_tracing: it is appended to the log, and either *)
(* succeeds and control moves on, or fails and `?` returns the error.      *)
(***************************************************************************)
Entry(periph, op, args, ret) ==
    [periph |-> periph, comp |-> find_component(components, periph),
     op |-> op, args |-> args, ret |-> ret]

\* Call with the error of the driver call dropped instead of returned.
Call_ignoreError(periph, op, args, next) ==
    \E ok \in BOOLEAN :
        /\ log' = Append(log, Entry(periph, op, args, IF ok THEN "ok" ELSE "err"))
        /\ pc' = next
        /\ result' = result

Call(periph, op, args, next) ==
    \E ok \in BOOLEAN :
        /\ log' = Append(log, Entry(periph, op, args, IF ok THEN "ok" ELSE "err"))
        /\ pc' = IF ok THEN next ELSE "done"
        /\ result' = IF ok THEN result ELSE ProbeError

\* Formatter with EnFCont set when continuous formatting is off.
Formatter_swapped(config) == IF config.tpiu_continuous_formatting THEN 256 ELSE 258

\* Formatter word of configure_tpiu: EnFCont set or cleared.
Formatter(config) == IF config.tpiu_continuous_formatting THEN 258 ELSE 256

\* Pin protocol code of a line encoding.
PinProtocol(mode) == IF mode = "Manchester" THEN 1 ELSE 2

\* The values `(config.tpiu_clk() / config.baud()) - 1` can produce in u32
\* arithmetic: none when the division or the subtraction panics, the wrapped
\* difference when overflow checks are compiled out.
Prescalers(config) ==
    IF config.baud = 0 THEN {}
    ELSE LET q == config.tpiu_clk \div config.baud
         IN  IF q >= 1 THEN {q - 1} ELSE {Modulus - 1}

PrescalerPanics(config) ==
    IF config.baud = 0 THEN TRUE ELSE config.tpiu_clk \div config.baud = 0

\* A set_prescaler call with the computed prescaler, or the panic.
SetPrescaler(periph, config, next) ==
    \/ \E p \in Prescalers(config) : Call(periph, "set_prescaler", <<p>>, next)
    \/ /\ PrescalerPanics(config)
       /\ pc' = "done"
       /\ result' = Panic
       /\ log' = log

(***************************************************************************)
(* setup_tracing                                                           *)
(***************************************************************************)
SetupBegin ==
    /\ pc = "idle"
    /\ \E s \in TraceSink : sink' = s
    /\ reinvoked' = reinvoked
    /\ log' = <<>>
    /\ polls' = 0
    /\ IF Found("Dwt")
       THEN pc' = "dwt_enable" /\ result' = None
       ELSE pc' = "done" /\ result' = ComponentNotFound("Dwt")
    /\ UNCHANGED <<restVars, readVars, components, tmc>>

DwtEnable ==
    /\ pc = "dwt_enable"
    /\ Call("Dwt", "enable", <<>>, "dwt_enable_exception_trace")
    /\ UNCHANGED <<restVars, readVars, components, tmc, sink, polls, reinvoked>>

DwtEnableExceptionTrace ==
    /\ pc = "dwt_enable_exception_trace"
    /\ Call("Dwt", "enable_exception_trace", <<>>, "find_itm")
    /\ UNCHANGED <<restVars, readVars, components, tmc, sink, polls, reinvoked>>

\* FindItm going on to the sink without configuring the ITM.
FindItm_skipItm ==
    /\ pc = "find_itm"
    /\ IF Found("Itm")
       THEN pc' = "match_sink" /\ result' = result
       ELSE pc' = "done" /\ result' = ComponentNotFound("Itm")
    /\ UNCHANGED <<restVars, readVars, components, tmc, sink, log, polls, reinvoked>>

FindItm ==
    /\ pc = "find_itm"
    /\ IF Found("Itm")
       THEN pc' = "itm_unlock" /\ result' = result
       ELSE pc' = "done" /\ result' = ComponentNotFound("Itm")
    /\ UNCHANGED <<restVars, readVars, components, tmc, sink, log, polls, reinvoked>>

ItmUnlock ==
    /\ pc = "itm_unlock"
    /\ Call("Itm", "unlock", <<>>, "itm_tx_enable")
    /\ UNCHANGED <<restVars, readVars, components, tmc, sink, polls, reinvoked>>

ItmTxEnable ==
    /\ pc = "itm_tx_enable"
    /\ Call("Itm", "tx_enable", <<>>, "match_sink")
    /\ UNCHANGED <<restVars, readVars, components, tmc, sink, polls, reinvoked>>

\* The position the `match sink` of setup_tracing moves to, or the error of
\* the component lookup of the branch taken.
\* SinkBranch reporting the missing SWO instead of falling back to the TPIU.
SinkBranch_noFallback(s) ==
    CASE s.variant = "Tpiu" ->
            IF Found("Tpiu") THEN [pc |-> "tpiu_set_port_size", result |-> None]
            ELSE [pc |-> "done", result |-> ComponentNotFound("Tpiu")]
      [] s.variant = "Swo" ->
            IF Found("Swo") THEN [pc |-> "swo_unlock", result |-> None]
            ELSE [pc |-> "done", result |-> ComponentNotFound("Swo")]
      [] s.variant = "TraceMemory" ->
            IF Found("Tmc") THEN [pc |-> "tmc_disable_capture", result |-> None]
            ELSE [pc |-> "done", result |-> ComponentNotFound("Tmc")]

\* SinkBranch whose Swo variant looks for the TPIU first and for the SWO after.
SinkBranch_preferTpiu(s) ==
    CASE s.variant = "Tpiu" ->
            IF Found("Tpiu") THEN [pc |-> "tpiu_set_port_size", result |-> None]
            ELSE [pc |-> "done", result |-> ComponentNotFound("Tpiu")]
      [] s.variant = "Swo" ->
            IF Found("Tpiu") THEN [pc |-> "tpiu_set_port_size", result |-> None]
            ELSE IF Found("Swo") THEN [pc |-> "swo_unlock", result |-> None]
            ELSE [pc |-> "done", result |-> ComponentNotFound("Tpiu")]
      [] s.variant = "TraceMemory" ->
            IF Found("Tmc") THEN [pc |-> "tmc_disable_capture", result |-> None]
            ELSE [pc |-> "done", result |-> ComponentNotFound("Tmc")]

\* SinkBranch whose SWO fallback enters the TPIU sequence after the port size.
SinkBranch_fallbackSkipsPortSize(s) ==
    CASE s.variant = "Tpiu" ->
            IF Found("Tpiu") THEN [pc |-> "tpiu_set_port_size", result |-> None]
            ELSE [pc |-> "done", result |-> ComponentNotFound("Tpiu")]
      [] s.variant = "Swo" ->
            IF Found("Swo") THEN [pc |-> "swo_unlock", result |-> None]
            ELSE IF Found("Tpiu") THEN [pc |-> "tpiu_set_prescaler", result |-> None]
            ELSE [pc |-> "done", result |-> ComponentNotFound("Tpiu")]
      [] s.variant = "TraceMemory" ->
            IF Found("Tmc") THEN [pc |-> "tmc_disable_capture", result |-> None]
            ELSE [pc |-> "done", result |-> ComponentNotFound("Tmc")]

SinkBranch(s) ==
    CASE s.variant = "Tpiu" ->
            IF Found("Tpiu") THEN [pc |-> "tpiu_set_port_size", result |-> None]
            ELSE [pc |-> "done", result |-> ComponentNotFound("Tpiu")]
      [] s.variant = "Swo" ->
            IF Found("Swo") THEN [pc |-> "swo_unlock", result |-> None]
            ELSE IF Found("Tpiu") THEN [pc |-> "tpiu_set_port_size", result |-> None]
            ELSE [pc |-> "done", result |-> ComponentNotFound("Tpiu")]
      [] s.variant = "TraceMemory" ->
            IF Found("Tmc") THEN [pc |-> "tmc_disable_capture", result |-> None]
            ELSE [pc |-> "done", result |-> ComponentNotFound("Tmc")]

MatchSink ==
    /\ pc = "match_sink"
    /\ pc' = SinkBranch(sink).pc
    /\ result' = SinkBranch(sink).result
    /\ UNCHANGED <<restVars, readVars, components, tmc, sink, log, polls, reinvoked>>

\* configure_tpiu
TpiuSetPortSize ==
    /\ pc = "tpiu_set_port_size"
    /\ Call("Tpiu", "set_port_size", <<1>>, "tpiu_set_prescaler")
    /\ UNCHANGED <<restVars, readVars, components, tmc, sink, polls, reinvoked>>

TpiuSetPrescaler ==
    /\ pc = "tpiu_set_prescaler"
    /\ SetPrescaler("Tpiu", sink.config, "tpiu_set_pin_protocol")
    /\ UNCHANGED <<restVars, readVars, components, tmc, sink, polls, reinvoked>>

TpiuSetPinProtocol ==
    /\ pc = "tpiu_set_pin_protocol"
    /\ Call("Tpiu", "set_pin_protocol", <<PinProtocol(sink.config.mode)>>,
            "tpiu_set_formatter")
    /\ UNCHANGED <<restVars, readVars, components, tmc, sink, polls, reinvoked>>

TpiuSetFormatter ==
    /\ pc = "tpiu_set_formatter"
    /\ Call("Tpiu", "set_formatter", <<Formatter(sink.config)>>, "return_ok")
    /\ UNCHANGED <<restVars, readVars, components, tmc, sink, polls, reinvoked>>

\* TraceSink::Swo with an SWO component
SwoUnlock ==
    /\ pc = "swo_unlock"
    /\ Call("Swo", "unlock", <<>>, "swo_set_prescaler")
    /\ UNCHANGED <<restVars, readVars, components, tmc, sink, polls, reinvoked>>

SwoSetPrescaler ==
    /\ pc = "swo_set_prescaler"
    /\ SetPrescaler("Swo", sink.config, "swo_set_pin_protocol")
    /\ UNCHANGED <<restVars, readVars, components, tmc, sink, polls, reinvoked>>

SwoSetPinProtocol ==
    /\ pc = "swo_set_pin_protocol"
    /\ Call("Swo", "set_pin_protocol", <<PinProtocol(sink.config.mode)>>, "return_ok")
    /\ UNCHANGED <<restVars, readVars, components, tmc, sink, polls, reinvoked>>

\* TraceSink::TraceMemory
\* Once capture is disabled the TMC drains its formatter and then reports
\* ready; a TMC that is hung never does.
TmcDisableCapture ==
    /\ pc = "tmc_disable_capture"
    /\ Call("Tmc", "disable_capture", <<>>, "tmc_ready")
    /\ tmc' \in IF pc' = "tmc_ready" THEN {"draining", "hung"} ELSE {tmc}
    /\ UNCHANGED <<restVars, readVars, components, sink, polls, reinvoked>>

\* The TMC has drained.
TmcDrained ==
    /\ tmc = "draining"
    /\ tmc' = "ready"
    /\ UNCHANGED <<restVars, readVars, components, pc, sink, log, result, polls, reinvoked>>

\* The answers tmc.ready() can give: true once the TMC is ready, false
\* before, an error at any time.
ReadyAnswers == {IF tmc = "ready" THEN "true" ELSE "false", "err"}

\* A poll that is logged: the log keeps the first MaxPolls polls answered false.
Logged(ret) == ret # "false" \/ polls < MaxPolls

\* TmcReady with the poll made once, its answer not waited for.
TmcReady_once ==
    /\ pc = "tmc_ready"
    /\ \E ret \in ReadyAnswers :
        /\ log' = IF Logged(ret) THEN Append(log, Entry("Tmc", "ready", <<>>, ret)) ELSE log
        /\ polls' = IF ret = "false" /\ Logged(ret) THEN polls + 1 ELSE polls
        /\ pc' = IF ret = "err" THEN "done" ELSE "tmc_set_mode"
        /\ result' = IF ret = "err" THEN ProbeError ELSE result
    /\ UNCHANGED <<restVars, readVars, components, tmc, sink, reinvoked>>

\* TmcReady with the wait given up after MaxPolls polls answered false.
TmcReady_giveUp ==
    /\ pc = "tmc_ready"
    /\ \E ret \in ReadyAnswers :
        /\ log' = IF Logged(ret) THEN Append(log, Entry("Tmc", "ready", <<>>, ret)) ELSE log
        /\ polls' = IF ret = "false" /\ Logged(ret) THEN polls + 1 ELSE polls
        /\ pc' = CASE ret = "true" -> "tmc_set_mode"
                   [] ret = "false" -> IF Logged(ret) THEN "tmc_ready" ELSE "tmc_set_mode"
                   [] ret = "err" -> "done"
        /\ result' = IF ret = "err" THEN ProbeError ELSE result
    /\ UNCHANGED <<restVars, readVars, components, tmc, sink, reinvoked>>

\* One evaluation of `while !tmc.ready()? {}`.
TmcReady ==
    /\ pc = "tmc_ready"
    /\ \E ret \in ReadyAnswers :
        /\ log' = IF Logged(ret) THEN Append(log, Entry("Tmc", "ready", <<>>, ret)) ELSE log
        /\ polls' = IF ret = "false" /\ Logged(ret) THEN polls + 1 ELSE polls
        /\ pc' = CASE ret = "true" -> "tmc_set_mode"
                   [] ret = "false" -> "tmc_ready"
                   [] ret = "err" -> "done"
        /\ result' = IF ret = "err" THEN ProbeError ELSE result
    /\ UNCHANGED <<restVars, readVars, components, tmc, sink, reinvoked>>

TmcSetMode ==
    /\ pc = "tmc_set_mode"
    /\ Call("Tmc", "set_mode_Software", <<>>, "tmc_enable_capture")
    /\ UNCHANGED <<restVars, readVars, components, tmc, sink, polls, reinvoked>>

TmcEnableCapture ==
    /\ pc = "tmc_enable_capture"
    /\ Call("Tmc", "enable_capture", <<>>, "return_ok")
    /\ UNCHANGED <<restVars, readVars, components, tmc, sink, polls, reinvoked>>

\* The final Ok(()) of setup_tracing.
SetupReturn ==
    /\ pc = "return_ok"
    /\ pc' = "done"
    /\ result' = Ok
    /\ UNCHANGED <<restVars, readVars, components, tmc, sink, log, polls, reinvoked>>

\* The caller has the result; the next call starts from scratch.
SetupDone ==
    /\ pc = "done"
    /\ pc' = "idle"
    /\ reinvoked' = TRUE
    /\ sink' = [variant |-> "TraceMemory"]
    /\ log' = <<>>
    /\ result' = None
    /\ polls' = 0
    /\ tmc' = "idle"
    /\ UNCHANGED <<restVars, readVars, components>>

SetupIdle ==
    /\ pc = "idle"
    /\ sink = [variant |-> "TraceMemory"]
    /\ log = <<>>
    /\ result = None
    /\ polls = 0
    /\ reinvoked = FALSE
    /\ tmc = "idle"

SetupInit ==
    /\ components \in ComponentLists
    /\ SetupIdle
    /\ ReadIdle
    /\ demcr = 0
    /\ DemcrIdle
    /\ FindIdle
    /\ RegIdle

SetupNext ==
    \/ SetupBegin
    \/ DwtEnable
    \/ DwtEnableExceptionTrace
    \/ FindItm
    \/ ItmUnlock
    \/ ItmTxEnable
    \/ MatchSink
    \/ TpiuSetPortSize
    \/ TpiuSetPrescaler
    \/ TpiuSetPinProtocol
    \/ TpiuSetFormatter
    \/ SwoUnlock
    \/ SwoSetPrescaler
    \/ SwoSetPinProtocol
    \/ TmcDisableCapture
    \/ TmcDrained
    \/ TmcReady
    \/ TmcSetMode
    \/ TmcEnableCapture
    \/ SetupReturn
    \/ SetupDone

SetupSpec == SetupInit /\ [][SetupNext]_vars

\* Component lists with the DWT, the ITM and one sink peripheral.
SinkLists == {<<"Dwt", "Itm", p>> : p \in SinkPeripherals}

SetupLiveInit ==
    /\ SetupInit
    /\ components \in SinkLists

\* A step in which no transaction fails.
Runs == SetupNext /\ result' # ProbeError

\* setup_tracing keeps running and a TMC that is draining gets ready; no
\* transaction is bound to fail.
SetupLiveSpec == SetupLiveInit /\ [][SetupNext]_vars /\ WF_vars(Runs)

(***************************************************************************)
(* read_trace_memory                                                       *)
(***************************************************************************)
\* Source ID Itm::tx_enable assigns to the ITM.
ItmAtid == 13

\* Bytes of a formatted frame.
FrameLen == 16

\* u32::to_le_bytes
to_le_bytes(data) ==
    <<data % 256, (data \div 256) % 256, (data \div 65536) % 256,
      (data \div 16777216) % 256>>

\* The u32 whose little-endian bytes are b.
WordOf(b) == b[1] + 256 * b[2] + 65536 * b[3] + 16777216 * b[4]

\* Words the FIFO delivers: 27 announces source 13 and 15 announces source 7;
\* the last byte of the word that ends a frame holds the frame's auxiliary bits.
FifoWords ==
    {WordOf(<<27, 65, 66, 3>>), WordOf(<<15, 1, 2, 0>>), WordOf(<<64, 65, 66, 67>>)}

(***************************************************************************)
(* tmc::Frame: the (source ID, byte) pairs a 16-byte formatter frame yields *)
(* when decoding starts with source ID `cur`, and the source ID current at *)
(* its end.  Bytes 0..14 carry data or, at even positions with bit 0 set,  *)
(* a new source ID; byte 15 holds for each even position the bit 0 of its  *)
(* data byte, or for a new source ID whether it takes effect only after    *)
(* the next byte.                                                          *)
(***************************************************************************)
RECURSIVE FrameScan(_, _, _, _)
FrameScan(frame, idx, cur, acc) ==
    IF idx >= FrameLen - 1 THEN [items |-> acc, id |-> cur]
    ELSE LET byte == frame[idx + 1]
             lsb == (frame[FrameLen] \div (2 ^ (idx \div 2))) % 2
         IN  IF idx % 2 = 1
             THEN FrameScan(frame, idx + 1, cur, Append(acc, <<cur, byte>>))
             ELSE IF byte % 2 = 0
             THEN FrameScan(frame, idx + 1, cur, Append(acc, <<cur, byte + lsb>>))
             ELSE IF lsb = 1 /\ idx + 1 < FrameLen - 1
             THEN FrameScan(frame, idx + 2, byte \div 2,
                            Append(acc, <<cur, frame[idx + 2]>>))
             ELSE FrameScan(frame, idx + 1, byte \div 2, acc)

Frame(frame_buffer, cur) == FrameScan(frame_buffer, 0, cur, <<>>)

\* The `match id.into()` of read_trace_memory with the arm of the other
\* sources appending like the ITM arm.
MatchAtid_keepOthers(pair, st) ==
    CASE pair[1] = ItmAtid -> [st EXCEPT !.itm_trace = Append(@, pair[2])]
      [] pair[1] = 0 -> st
      [] OTHER -> [st EXCEPT !.itm_trace = Append(@, pair[2])]

\* The `match id.into()` of read_trace_memory.
MatchAtid(pair, st) ==
    CASE pair[1] = ItmAtid -> [st EXCEPT !.itm_trace = Append(@, pair[2])]
      [] pair[1] = 0 -> st
      [] OTHER -> [st EXCEPT !.warned = Append(@, pair)]

\* `for (id, data) in &mut frame`
RECURSIVE ForItems(_, _, _)
ForItems(items, k, st) ==
    IF k > Len(items) THEN st ELSE ForItems(items, k + 1, MatchAtid(items[k], st))

\* ForFrames with the source ID a frame ends with not handed to the next frame.
RECURSIVE ForFrames_noCarry(_, _, _)
ForFrames_noCarry(etf, k, st) ==
    IF FrameLen * k > Len(etf) THEN st
    ELSE LET frame_buffer == SubSeq(etf, FrameLen * (k - 1) + 1, FrameLen * k)
             frame == Frame(frame_buffer, st.id)
             after == ForItems(frame.items, 1, st)
         IN  ForFrames_noCarry(etf, k + 1,
                       [after EXCEPT !.frame_ids = Append(st.frame_ids, st.id),
                                     !.decoded = st.decoded \o frame.items])

\* `for frame_buffer in etf_trace.chunks_exact(16)`
RECURSIVE ForFrames(_, _, _)
ForFrames(etf, k, st) ==
    IF FrameLen * k > Len(etf) THEN st
    ELSE LET frame_buffer == SubSeq(etf, FrameLen * (k - 1) + 1, FrameLen * k)
             frame == Frame(frame_buffer, st.id)
             after == ForItems(frame.items, 1, st)
         IN  ForFrames(etf, k + 1,
                       [after EXCEPT !.id = frame.id,
                                     !.frame_ids = Append(st.frame_ids, st.id),
                                     !.decoded = st.decoded \o frame.items])

\* The decoding with the source ID left by the call before as its start.
Decode_threaded(etf) ==
    ForFrames(etf, 1, [id |-> id, itm_trace |-> <<>>, warned |-> <<>>,
                       frame_ids |-> <<>>, decoded |-> <<>>])

\* The decoding of read_trace_memory: `let mut id = 0.into()` and the loop.
Decode(etf) ==
    ForFrames(etf, 1, [id |-> 0, itm_trace |-> <<>>, warned |-> <<>>,
                       frame_ids |-> <<>>, decoded |-> <<>>])

\* The read loop is left with raw buffer `etf`: decode it and return.
Finish(etf) ==
    LET d == Decode(etf)
    IN  /\ rpc' = "done"
        /\ etf_trace' = etf
        /\ out' = [tag |-> "Ok", data |-> d.itm_trace]
        /\ prev_id' = id
        /\ id' = d.id
        /\ frame_ids' = d.frame_ids
        /\ decoded' = d.decoded
        /\ warned' = d.warned
        /\ UNCHANGED <<fifo_size, fifoLive>>

\* find_component(Tmc) and tmc.fifo_size()
ReadBegin ==
    /\ rpc = "idle"
    /\ IF ~Found("Tmc")
       THEN /\ rpc' = "done"
            /\ out' = ComponentNotFound("Tmc")
            /\ UNCHANGED fifo_size
       ELSE \/ /\ rpc' = "done"
               /\ out' = ProbeError
               /\ UNCHANGED fifo_size
            \/ /\ rpc' = "loop"
               /\ out' = None
               /\ \E n \in 0..MaxFifoSize : fifo_size' = n
    /\ fifoLive' = TRUE
    /\ etf_trace' = <<>>
    /\ UNCHANGED <<restVars, components, setupVars, id, prev_id, frame_ids, decoded, warned>>

\* Full with the bound alone, on or off a frame boundary.
Full_noBoundary(buf) == Len(buf) >= fifo_size

\* The buffer's length allows the loop to end at the fifo_size bound.
Full(buf) == Len(buf) % FrameLen = 0 /\ Len(buf) >= fifo_size

\* One loop iteration in which tmc.read() answers Some(data).
ReadSome ==
    /\ rpc = "loop"
    /\ fifoLive
    /\ \E data \in FifoWords :
          LET buf == etf_trace \o to_le_bytes(data)
          IN  IF Full(buf)
              THEN Finish(buf)
              ELSE /\ etf_trace' = buf
                   /\ UNCHANGED <<rpc, fifo_size, fifoLive, out, id, prev_id,
                                  frame_ids, decoded, warned>>
    /\ UNCHANGED <<restVars, components, setupVars>>

\* One loop iteration in which tmc.read() answers None on a frame boundary.
ReadNoneBreak ==
    /\ rpc = "loop"
    /\ Len(etf_trace) % FrameLen = 0
    /\ Finish(etf_trace)
    /\ UNCHANGED <<restVars, components, setupVars>>

\* One loop iteration in which tmc.read() answers None inside a frame: the
\* loop goes round with nothing changed.
ReadNoneSpin ==
    /\ rpc = "loop"
    /\ Len(etf_trace) % FrameLen # 0
    /\ UNCHANGED vars

\* One loop iteration in which tmc.read() fails.
ReadErr ==
    /\ rpc = "loop"
    /\ rpc' = "done"
    /\ out' = ProbeError
    /\ UNCHANGED <<restVars, components, setupVars, fifo_size, fifoLive, etf_trace, id, prev_id,
                   frame_ids, decoded, warned>>

\* The trace source stops: the FIFO holds no further word from now on.
SourceStops ==
    /\ rpc = "loop"
    /\ fifoLive
    /\ fifoLive' = FALSE
    /\ UNCHANGED <<restVars, components, setupVars, rpc, fifo_size, etf_trace, out, id, prev_id,
                   frame_ids, decoded, warned>>

\* The caller has the result; the next call starts from scratch.
ReadDone ==
    /\ rpc = "done"
    /\ rpc' = "idle"
    /\ fifo_size' = 0
    /\ fifoLive' = TRUE
    /\ etf_trace' = <<>>
    /\ out' = None
    /\ prev_id' = 0
    /\ frame_ids' = <<>>
    /\ decoded' = <<>>
    /\ warned' = <<>>
    /\ UNCHANGED <<restVars, components, setupVars, id>>

ReadInit ==
    /\ components \in {cs \in ComponentLists : Len(cs) <= 1}
    /\ SetupIdle
    /\ ReadIdle
    /\ demcr = 0
    /\ DemcrIdle
    /\ FindIdle
    /\ RegIdle

ReadNext ==
    \/ ReadBegin
    \/ ReadSome
    \/ ReadNoneBreak
    \/ ReadNoneSpin
    \/ ReadErr
    \/ SourceStops
    \/ ReadDone

ReadSpec == ReadInit /\ [][ReadNext]_vars

\* The loop runs on: a word the source keeps offering is read, and an empty
\* FIFO on a frame boundary ends the loop.
ReadLiveSpec == ReadSpec /\ WF_vars(ReadSome) /\ WF_vars(ReadNoneBreak)

(***************************************************************************)
(* enable_tracing and disable_swv: a read of DEMCR, the trace-enable bit   *)
(* set or cleared in the value read, and a write of the result.            *)
(***************************************************************************)
\* most enable_tracing / disable_swv calls in one behaviour
MaxDemcrCalls == 2

\* Position of the trace-enable bit (TRCENA, the field `dwtena`) in DEMCR.
TrcenaBit == 24

\* Positions of the other DEMCR bits the model lets vary.
OtherDemcrBits == {0, 16}

Bit(word, n) == (word \div (2 ^ n)) % 2

\* The values DEMCR can hold.
DemcrWords ==
    {b0 + (2 ^ 16) * b16 + (2 ^ TrcenaBit) * b24 : b0 \in 0..1, b16 \in 0..1, b24 \in 0..1}

\* Demcr::set_dwtena
set_dwtena(word, value) ==
    (word - Bit(word, TrcenaBit) * (2 ^ TrcenaBit))
        + (IF value THEN 2 ^ TrcenaBit ELSE 0)

\* Callers inside a call.
InFlight == {t \in Callers : dpc[t] # "idle"}

\* Another call has read DEMCR and not yet written it.
Separates(t) == \E u \in Callers \ {t} : dpc[u] = "write"

\* BorrowCore with the core handed out to several callers at once.
BorrowCore_shared(t) == TRUE

\* `core: &mut Core`: a call has the core to itself from entry to return.
BorrowCore(t) == \A u \in Callers \ {t} : dpc[u] = "idle"

\* Entry of a call.
DemcrBegin(t, op) ==
    /\ dpc[t] = "idle"
    /\ Len(dhist) + Cardinality(InFlight) < MaxDemcrCalls
    /\ BorrowCore(t)
    /\ dpc' = [dpc EXCEPT ![t] = "read"]
    /\ dop' = [dop EXCEPT ![t] = op]
    /\ dtx' = [dtx EXCEPT ![t] = <<>>]
    /\ dres' = [dres EXCEPT ![t] = None]
    /\ UNCHANGED <<demcr, dword, dhist, base, interleaved>>
    /\ UNCHANGED <<components, setupVars, readVars, findVars, regVars>>

enable_tracing(t) == DemcrBegin(t, "enable")

disable_swv(t) == DemcrBegin(t, "disable")

\* DemcrRead with the value read dropped.
DemcrRead_fresh(t) ==
    /\ dpc[t] = "read"
    /\ \E ok \in BOOLEAN :
        /\ dtx' = [dtx EXCEPT ![t] =
                      Append(@, [kind |-> "read", value |-> demcr, ok |-> ok])]
        /\ dword' = [dword EXCEPT ![t] = 0]
        /\ dpc' = [dpc EXCEPT ![t] = IF ok THEN "write" ELSE "done"]
        /\ dres' = [dres EXCEPT ![t] = IF ok THEN @ ELSE ProbeError]
    /\ interleaved' = (interleaved \/ Separates(t))
    /\ UNCHANGED <<demcr, dop, dhist, base>>
    /\ UNCHANGED <<components, setupVars, readVars, findVars, regVars>>

\* Demcr(core.read_word_32(Demcr::ADDRESS)?)
DemcrRead(t) ==
    /\ dpc[t] = "read"
    /\ \E ok \in BOOLEAN :
        /\ dtx' = [dtx EXCEPT ![t] =
                      Append(@, [kind |-> "read", value |-> demcr, ok |-> ok])]
        /\ dword' = [dword EXCEPT ![t] = IF ok THEN demcr ELSE @]
        /\ dpc' = [dpc EXCEPT ![t] = IF ok THEN "write" ELSE "done"]
        /\ dres' = [dres EXCEPT ![t] = IF ok THEN @ ELSE ProbeError]
    /\ interleaved' = (interleaved \/ Separates(t))
    /\ UNCHANGED <<demcr, dop, dhist, base>>
    /\ UNCHANGED <<components, setupVars, readVars, findVars, regVars>>

\* disable_swv clearing nothing: the value read is written back.
NewDemcr_keep(op, word) == IF op = "enable" THEN set_dwtena(word, TRUE) ELSE word

\* demcr.set_dwtena(true) in enable_tracing, demcr.set_dwtena(false) in disable_swv
NewDemcr(op, word) == set_dwtena(word, op = "enable")

\* core.write_word_32(Demcr::ADDRESS, demcr.into())?; Ok(())
DemcrWrite(t) ==
    /\ dpc[t] = "write"
    /\ \E ok \in BOOLEAN :
        LET value == NewDemcr(dop[t], dword[t])
        IN  /\ dtx' = [dtx EXCEPT ![t] =
                          Append(@, [kind |-> "write", value |-> value, ok |-> ok])]
            /\ dword' = [dword EXCEPT ![t] = value]
            /\ demcr' = IF ok THEN value ELSE demcr
            /\ dres' = [dres EXCEPT ![t] = IF ok THEN Ok ELSE ProbeError]
    /\ dpc' = [dpc EXCEPT ![t] = "done"]
    /\ interleaved' = (interleaved \/ Separates(t))
    /\ UNCHANGED <<dop, dhist, base>>
    /\ UNCHANGED <<components, setupVars, readVars, findVars, regVars>>

\* The call returns to its caller.
DemcrReturn(t) ==
    /\ dpc[t] = "done"
    /\ dhist' = Append(dhist, [caller |-> t, op |-> dop[t], res |-> dres[t],
                              tx |-> dtx[t], after |-> demcr])
    /\ dpc' = [dpc EXCEPT ![t] = "idle"]
    /\ dop' = [dop EXCEPT ![t] = "none"]
    /\ dword' = [dword EXCEPT ![t] = 0]
    /\ dtx' = [dtx EXCEPT ![t] = <<>>]
    /\ UNCHANGED <<demcr, dres, base, interleaved>>
    /\ UNCHANGED <<components, setupVars, readVars, findVars, regVars>>

DemcrInit ==
    /\ components = <<>>
    /\ SetupIdle
    /\ ReadIdle
    /\ demcr \in DemcrWords
    /\ DemcrIdle
    /\ FindIdle
    /\ RegIdle

DemcrNext ==
    \E t \in Callers :
        \/ enable_tracing(t)
        \/ disable_swv(t)
        \/ DemcrRead(t)
        \/ DemcrWrite(t)
        \/ DemcrReturn(t)

DemcrSpec == DemcrInit /\ [][DemcrNext]_vars

(***************************************************************************)
(* find_component called on its own, on any component list: here a list    *)
(* may hold several components of one type.                                *)
(***************************************************************************)
FindComponent(peripheral_type) ==
    /\ wanted' = peripheral_type
    /\ found' = LET i == find_component(components, peripheral_type)
                IN  IF i = 0 THEN ComponentNotFound(peripheral_type)
                    ELSE [tag |-> "Ok", index |-> i]
    /\ UNCHANGED <<components, setupVars, readVars, demcrVars, regVars>>

FindInit ==
    /\ components \in SeqsUpTo(PeripheralType, MaxComponents)
    /\ SetupIdle
    /\ ReadIdle
    /\ demcr = 0
    /\ DemcrIdle
    /\ FindIdle
    /\ RegIdle

FindNext == \E peripheral_type \in PeripheralType : FindComponent(peripheral_type)

FindSpec == FindInit /\ [][FindNext]_vars

(***************************************************************************)
(* DebugRegister: load, store, load_unit and store_unit of a register type *)
(* with address ADDRESS.  Addresses are u32 in the source and AddrBits wide *)
(* here; a unit index is a usize, which is wider.                          *)
(***************************************************************************)
\* width of an address (u32 in the source, scaled down)
AddrBits == 6

AddrModulus == 2 ^ AddrBits

\* usize values: two bits wider than an address
UnitModulus == 4 * AddrModulus

\* Bytes from one unit's register to the next unit's.
UnitStride == 16

\* Word-aligned register addresses.
RegAddresses == {a \in 0..(AddrModulus - 1) : a % 4 = 0}

\* Register values read or stored.
RegValues == 0..1

\* `unit as u32`
as_u32(unit) == unit % AddrModulus

\* `Self::ADDRESS + 16 * unit as u32` overflows.
UnitAddressOverflows(ADDRESS, unit) ==
    \/ UnitStride * as_u32(unit) >= AddrModulus
    \/ ADDRESS + UnitStride * as_u32(unit) >= AddrModulus

\* The address `Self::ADDRESS + 16 * unit as u32` evaluates to when it does
\* not panic: the wrapped sum when overflow checks are compiled out.
UnitAddress(ADDRESS, unit) == (ADDRESS + UnitStride * as_u32(unit)) % AddrModulus

\* component.read_reg(interface, address)? and Ok(Self::from(..))
ReadReg(fn, ADDRESS, unit, address) ==
    /\ reg_call' = [fn |-> fn, address |-> ADDRESS, unit |-> unit]
    /\ \E ok \in BOOLEAN, word \in RegValues :
        /\ reg_tx' = <<[kind |-> "read", address |-> address, ok |-> ok]>>
        /\ reg_res' = IF ok THEN [tag |-> "Ok", value |-> word] ELSE ProbeError

\* component.write_reg(interface, address, self.clone().into())
WriteReg(fn, ADDRESS, unit, address) ==
    /\ reg_call' = [fn |-> fn, address |-> ADDRESS, unit |-> unit]
    /\ \E ok \in BOOLEAN :
        /\ reg_tx' = <<[kind |-> "write", address |-> address, ok |-> ok]>>
        /\ reg_res' = IF ok THEN Ok ELSE ProbeError

\* The overflow check of the address computation fires: no transaction.
AddressPanics(fn, ADDRESS, unit) ==
    /\ UnitAddressOverflows(ADDRESS, unit)
    /\ reg_call' = [fn |-> fn, address |-> ADDRESS, unit |-> unit]
    /\ reg_tx' = <<>>
    /\ reg_res' = Panic

\* unit indices handed to load_unit and store_unit
Units == 0..(UnitModulus - 1)

load ==
    /\ reg_call = None
    /\ \E ADDRESS \in RegAddresses : ReadReg("load", ADDRESS, 0, ADDRESS)
    /\ UNCHANGED <<components, setupVars, readVars, demcrVars, findVars>>

load_unit ==
    /\ reg_call = None
    /\ \E ADDRESS \in RegAddresses, unit \in Units :
          \/ ReadReg("load_unit", ADDRESS, unit, UnitAddress(ADDRESS, unit))
          \/ AddressPanics("load_unit", ADDRESS, unit)
    /\ UNCHANGED <<components, setupVars, readVars, demcrVars, findVars>>

store ==
    /\ reg_call = None
    /\ \E ADDRESS \in RegAddresses : WriteReg("store", ADDRESS, 0, ADDRESS)
    /\ UNCHANGED <<components, setupVars, readVars, demcrVars, findVars>>

store_unit ==
    /\ reg_call = None
    /\ \E ADDRESS \in RegAddresses, unit \in Units :
          \/ WriteReg("store_unit", ADDRESS, unit, UnitAddress(ADDRESS, unit))
          \/ AddressPanics("store_unit", ADDRESS, unit)
    /\ UNCHANGED <<components, setupVars, readVars, demcrVars, findVars>>

\* The caller has the result; the next call starts from scratch.
RegDone ==
    /\ reg_call # None
    /\ reg_call' = None
    /\ reg_tx' = <<>>
    /\ reg_res' = None
    /\ UNCHANGED <<components, setupVars, readVars, demcrVars, findVars>>

RegInit ==
    /\ components = <<>>
    /\ SetupIdle
    /\ ReadIdle
    /\ demcr = 0
    /\ DemcrIdle
    /\ FindIdle
    /\ RegIdle

RegNext ==
    \/ load
    \/ load_unit
    \/ store
    \/ store_unit
    \/ RegDone

RegSpec == RegInit /\ [][RegNext]_vars

(***************************************************************************)
(* Properties of setup_tracing.                                            *)
(***************************************************************************)
Ops(l) == [i \in 1..Len(l) |-> <<l[i].periph, l[i].op>>]

Prefix(s, t) == Len(s) <= Len(t) /\ \A i \in 1..Len(s) : s[i] = t[i]

DwtItmCalls ==
    <<<<"Dwt", "enable">>, <<"Dwt", "enable_exception_trace">>,
      <<"Itm", "unlock">>, <<"Itm", "tx_enable">>>>

IsError(r) == r.tag \in {"ComponentNotFound", "ProbeError", "Panic"}

\* C1: in every invocation, whatever the sink and whether or not an earlier
\* invocation has run, a call to a sink peripheral (TPIU, SWO, TMC) is in the
\* log only after DWT.enable, DWT.enable_exception_trace, ITM.unlock and
\* ITM.tx_enable, issued in this order by the same invocation, all succeeded.
C1_SinkAfterDwtItm ==
    \A i \in 1..Len(log) :
        log[i].periph \in SinkPeripherals =>
            /\ i > 4
            /\ SubSeq(Ops(log), 1, 4) = DwtItmCalls
            /\ \A j \in 1..4 : log[j].ret = "ok"

C1_Witness ==
    /\ reinvoked
    /\ Len(log) > 4
    /\ log[5].periph \in SinkPeripherals

\* The calls of a TraceMemory set-up after the DWT/ITM calls: disable_capture,
\* ready polls of which only the last may answer true, set_mode(Software)
\* right after a poll that answered true, then enable_capture.
TraceMemoryTail(t) ==
    \A i \in 1..Len(t) :
        /\ t[i].periph = "Tmc"
        /\ t[i].op \in {"disable_capture", "ready", "set_mode_Software", "enable_capture"}
        /\ t[i].op = "disable_capture" <=> i = 1
        /\ (t[i].op = "ready" /\ i > 2) => (t[i-1].op = "ready" /\ t[i-1].ret = "false")
        /\ t[i].op = "set_mode_Software" =>
              (i > 2 /\ t[i-1].op = "ready" /\ t[i-1].ret = "true")
        /\ t[i].op = "enable_capture" =>
              (i > 3 /\ t[i-1].op = "set_mode_Software" /\ t[i-1].ret = "ok"
                     /\ i = Len(t))

\* C2: with components DWT, ITM, TMC and sink TraceMemory the calls issued are
\* DWT.enable, DWT.enable_exception_trace, ITM.unlock, ITM.tx_enable,
\* TMC.disable_capture, TMC.ready until it answers true, TMC.set_mode(Software),
\* TMC.enable_capture, in this order, and a call that returns Ok issued all of them.
C2_TraceMemorySequence ==
    (Range(components) = {"Dwt", "Itm", "Tmc"} /\ sink.variant = "TraceMemory") =>
        /\ Prefix(SubSeq(Ops(log), 1, IF Len(log) < 4 THEN Len(log) ELSE 4), DwtItmCalls)
        /\ TraceMemoryTail(SubSeq(log, 5, Len(log)))
        /\ (pc = "done" /\ result = Ok) =>
              (Len(log) >= 8 /\ log[Len(log)].op = "enable_capture")

C2_Witness ==
    /\ components = <<"Dwt", "Itm", "Tmc">>
    /\ sink.variant = "TraceMemory"
    /\ pc = "done"
    /\ result = Ok
    /\ polls = MaxPolls

\* The k-th call of configure_tpiu for a configuration.
TpiuCall(k, config, e) ==
    /\ e.periph = "Tpiu"
    /\ e.comp = find_component(components, "Tpiu")
    /\ CASE k = 1 -> e.op = "set_port_size" /\ e.args = <<1>>
         [] k = 2 -> e.op = "set_prescaler" /\ e.args[1] \in Prescalers(config)
         [] k = 3 -> e.op = "set_pin_protocol"
                     /\ e.args = <<IF config.mode = "Manchester" THEN 1 ELSE 2>>
         [] k = 4 -> e.op = "set_formatter"
                     /\ e.args = <<IF config.tpiu_continuous_formatting THEN 258 ELSE 256>>
         [] OTHER -> FALSE

\* C3: without an SWO component, Swo(config) and Tpiu(config) issue the same
\* sink writes: under either variant the calls after the DWT/ITM calls are the
\* configure_tpiu calls for config, on the same component, with the same
\* values, in the same order, and a call that returns Ok issued all four.
C3_SwoFallbackSameAsTpiu ==
    (sink.variant \in {"Swo", "Tpiu"} /\ ~Found("Swo")) =>
        /\ \A i \in 5..Len(log) : TpiuCall(i - 4, sink.config, log[i])
        /\ (pc = "done" /\ result = Ok) => Len(log) = 8
        /\ (pc = "done" /\ ~Found("Tpiu")) => Len(log) <= 4

C3_Witness ==
    /\ sink.variant = "Swo"
    /\ ~Found("Swo")
    /\ pc = "done"
    /\ result = Ok
    /\ Len(log) = 8

\* C4: for every (clock, baud) pair the prescaler computed by setup_tracing is
\* floor(clock / baud) - 1: the computation does not fail and every
\* set_prescaler call carries that value.
C4_PrescalerExact ==
    /\ result # Panic
    /\ \A i \in 1..Len(log) :
          log[i].op = "set_prescaler" =>
              log[i].args[1] = (sink.config.tpiu_clk \div sink.config.baud) - 1

\* C9: a failing step ends the call at once with its error: a failed driver
\* call is the last call in the log, a call that has an error has returned,
\* everything logged before the failure succeeded and stays logged, and after
\* a failure among the DWT/ITM steps no sink peripheral was accessed.
C9_FailureAborts ==
    /\ \A i \in 1..Len(log) :
          log[i].ret = "err" => (i = Len(log) /\ pc = "done" /\ result = ProbeError)
    /\ IsError(result) => pc = "done"
    /\ result = ProbeError => (log # <<>> /\ log[Len(log)].ret = "err")
    /\ (result.tag = "ComponentNotFound" /\ result.kind \in {"Dwt", "Itm"}) =>
          \A i \in 1..Len(log) : log[i].periph \notin SinkPeripherals
    /\ (Len(log) <= 4 /\ result = ProbeError) =>
          \A i \in 1..Len(log) : log[i].periph \notin SinkPeripherals

C9_Witness ==
    /\ pc = "done"
    /\ result = ProbeError
    /\ Len(log) = 3
    /\ log[3].ret = "err"
    /\ Found("Tmc")

\* C10: with components DWT, ITM, TMC a Tpiu request and an Swo request both
\* end in ComponentNotFound(Tpiu) once the DWT/ITM calls succeeded (never in
\* ComponentNotFound(Swo), never in Ok), and no TMC call is issued.
C10_NoTpiuNoSwo ==
    (Range(components) = {"Dwt", "Itm", "Tmc"} /\ sink.variant \in {"Tpiu", "Swo"}) =>
        /\ \A i \in 1..Len(log) : log[i].periph \in {"Dwt", "Itm"}
        /\ pc = "done" => result \in {ComponentNotFound("Tpiu"), ProbeError}
        /\ (pc = "done" /\ Len(log) = 4 /\ log[4].ret = "ok") =>
              result = ComponentNotFound("Tpiu")

C10_Witness ==
    /\ components = <<"Dwt", "Itm", "Tmc">>
    /\ sink.variant = "Swo"
    /\ pc = "done"
    /\ result = ComponentNotFound("Tpiu")
    /\ Len(log) = 4

\* C16: a TraceMemory set-up that polls a TMC which gets ready returns, with
\* Ok unless a transaction fails; while it polls a TMC that never gets ready
\* it stays in the poll loop unless a poll fails, and it issues neither
\* set_mode nor enable_capture.
C16_WaitsForReady ==
    /\ (pc = "tmc_ready" /\ tmc # "hung") ~>
          (pc = "done" /\ (result = Ok \/ result = ProbeError))
    /\ [][(pc = "tmc_ready" /\ tmc = "hung") =>
            (pc' = "tmc_ready" \/ (pc' = "done" /\ result' = ProbeError))]_vars
    /\ [](tmc = "hung" =>
            \A i \in 1..Len(log) : log[i].op \notin {"set_mode_Software", "enable_capture"})

C16_Witness ==
    /\ sink.variant = "TraceMemory"
    /\ tmc = "ready"
    /\ polls >= 1
    /\ pc = "done"
    /\ result = Ok
SwoCalls ==
    <<<<"Swo", "unlock">>, <<"Swo", "set_prescaler">>, <<"Swo", "set_pin_protocol">>>>

\* C17: with an SWO component in the list, an Swo(config) request issues after
\* the DWT/ITM calls SWO.unlock, SWO.set_prescaler, SWO.set_pin_protocol, in
\* this order and nothing else: a call that returns Ok issued exactly these
\* three, and no call goes to the TPIU, whether or not the list holds one.
C17_SwoOnly ==
    (sink.variant = "Swo" /\ Found("Swo")) =>
        /\ \A i \in 1..Len(log) : log[i].periph \in {"Dwt", "Itm", "Swo"}
        /\ \A i \in 1..Len(log) : log[i].periph = "Swo" <=> i > 4
        /\ Prefix(SubSeq(Ops(log), 5, Len(log)), SwoCalls)
        /\ \A i \in 1..Len(log) :
              log[i].op \notin {"set_port_size", "set_formatter"}
        /\ (pc = "done" /\ result = Ok) => Len(log) = 7

C17_Witness ==
    /\ sink.variant = "Swo"
    /\ Found("Swo")
    /\ Found("Tpiu")
    /\ find_component(components, "Tpiu") < find_component(components, "Swo")
    /\ pc = "done"
    /\ result = Ok
    /\ Len(log) = 7

\* C18: the calls of the TPIU sequence are, in this order, set_port_size(1),
\* set_prescaler, set_pin_protocol and set_formatter, each issued once; the
\* pin protocol is 1 for Manchester and 2 for UART, the formatter word 0x102
\* with continuous formatting and 0x100 without.
C18_TpiuSequence ==
    LET tpiu == SelectSeq(log, LAMBDA e : e.periph = "Tpiu")
        ops == [i \in 1..Len(tpiu) |-> tpiu[i].op]
    IN  /\ Prefix(ops, <<"set_port_size", "set_prescaler", "set_pin_protocol",
                         "set_formatter">>)
        /\ \A i \in 1..Len(tpiu) :
              /\ tpiu[i].op = "set_port_size" => tpiu[i].args = <<1>>
              /\ tpiu[i].op = "set_pin_protocol" =>
                    /\ sink.config.mode = "Manchester" => tpiu[i].args = <<1>>
                    /\ sink.config.mode = "Uart" => tpiu[i].args = <<2>>
              /\ tpiu[i].op = "set_formatter" =>
                    /\ sink.config.tpiu_continuous_formatting => tpiu[i].args = <<258>>
                    /\ ~sink.config.tpiu_continuous_formatting => tpiu[i].args = <<256>>
        /\ (tpiu # <<>> /\ pc = "done" /\ result = Ok) => Len(tpiu) = 4

C18_Witness ==
    /\ sink.variant = "Tpiu"
    /\ sink.config.mode = "Uart"
    /\ sink.config.tpiu_continuous_formatting
    /\ pc = "done"
    /\ result = Ok
    /\ log[Len(log)].op = "set_formatter"
    /\ log[Len(log)].args = <<258>>

(***************************************************************************)
(* Properties of read_trace_memory.                                        *)
(***************************************************************************)
Returned == rpc = "done" /\ out.tag = "Ok"

Bytes(pairs) == [i \in 1..Len(pairs) |-> pairs[i][2]]

\* C5: whatever fifo_size is and however the FIFO behaves, the byte vector
\* read_trace_memory returns is at most fifo_size long.
C5_OutputWithinFifoSize == Returned => Len(out.data) <= fifo_size

\* C6: read_trace_memory does not block: however the FIFO behaves, also when it
\* runs empty inside a frame, a call that entered its read loop returns.
C6_ReadReturns == (rpc = "loop") ~> (rpc = "done")

\* C7: the bytes returned are, in their order, the bytes of the decoded pairs
\* whose source ID is 13; pairs of source 0 are dropped, pairs of any other
\* source are logged and dropped, and a call that met them still returns Ok.
C7_OnlyItmBytes ==
    /\ Returned =>
          /\ out.data = Bytes(SelectSeq(decoded, LAMBDA p : p[1] = 13))
          /\ warned = SelectSeq(decoded, LAMBDA p : p[1] \notin {0, 13})
    /\ decoded # <<>> => Returned

C7_Witness ==
    /\ Returned
    /\ \E i \in 1..Len(decoded) : decoded[i][1] = 13
    /\ \E i \in 1..Len(decoded) : decoded[i][1] = 0
    /\ \E i \in 1..Len(decoded) : decoded[i][1] = 7
    /\ Len(out.data) < Len(decoded)

\* A step that ends the read loop and decodes at least one frame.
Decodes == rpc = "loop" /\ rpc' = "done" /\ frame_ids' # <<>>

\* C8 as claimed: the source ID current at the end of one invocation is the
\* source ID the next invocation starts decoding its first frame with.
C8_IdThreaded == [][Decodes => frame_ids'[1] = id]_vars

\* C8 as amended: every invocation starts decoding its first frame with
\* source ID 0, whatever source ID the invocation before ended with.
C8_IdRestarts == [][Decodes => frame_ids'[1] = 0]_vars

C8_Witness ==
    /\ Returned
    /\ prev_id = 13
    /\ frame_ids # <<>>
    /\ frame_ids[1] = 0
\* C14: the read loop is left with a result only on a frame boundary: the
\* raw buffer it leaves with is a multiple of 16 bytes long, whether the FIFO
\* ran empty or the fifo_size bound was met, and from a buffer that is not a
\* multiple of 16 bytes long it is left only by a step that read a word (an
\* empty read there leaves the buffer as it is and the loop running).
C14_ExitOnFrameBoundary ==
    [][(rpc = "loop" /\ rpc' = "done" /\ out'.tag = "Ok") =>
          /\ Len(etf_trace') % FrameLen = 0
          /\ Len(etf_trace) % FrameLen # 0 => Len(etf_trace') > Len(etf_trace)]_vars

C14_Witness ==
    /\ Returned
    /\ Len(etf_trace) = FrameLen
    /\ fifo_size \in 1..(FrameLen - 1)
\* The k-th 16-byte frame of the raw buffer.
Chunk(etf, k) == SubSeq(etf, FrameLen * (k - 1) + 1, FrameLen * k)

\* C15: within one invocation every whole frame of the raw buffer is decoded
\* once, in order; the first frame is decoded starting from source ID 0 and
\* every later frame starting from the source ID that was current when the
\* frame before it finished.
C15_IdCarriedBetweenFrames ==
    Returned =>
        /\ Len(frame_ids) = Len(etf_trace) \div FrameLen
        /\ \A k \in 1..Len(frame_ids) :
              frame_ids[k] = IF k = 1 THEN 0
                             ELSE Frame(Chunk(etf_trace, k - 1), frame_ids[k - 1]).id

C15_Witness ==
    /\ Returned
    /\ Len(frame_ids) = 2
    /\ frame_ids[2] = ItmAtid
    /\ id = 7

(***************************************************************************)
(* Properties of enable_tracing and disable_swv.                           *)
(***************************************************************************)
\* No transaction of the call failed.
TransportOk(call) == \A i \in 1..Len(call.tx) : call.tx[i].ok

\* C11: every disable_swv call whose transactions succeed returns Ok and
\* leaves the trace-enable bit clear, whatever the bit was before, and so
\* does a second disable_swv call right after it.
C11_DisableIdempotent ==
    \A k \in 1..Len(dhist) :
        (dhist[k].op = "disable" /\ TransportOk(dhist[k])) =>
            /\ dhist[k].res = Ok
            /\ Bit(dhist[k].after, TrcenaBit) = 0
            /\ (k > 1 /\ dhist[k-1].op = "disable" /\ dhist[k-1].res = Ok) =>
                  dhist[k].after = dhist[k-1].after

C11_Witness ==
    /\ Len(dhist) = 2
    /\ Bit(base, TrcenaBit) = 1
    /\ \A k \in 1..2 : dhist[k].op = "disable" /\ dhist[k].res = Ok
    /\ Bit(demcr, TrcenaBit) = 0

\* DEMCR after a call of `op` alone took effect on `word`.
Alone(op, word) ==
    CHOOSE v \in DemcrWords :
        /\ Bit(v, TrcenaBit) = (IF op = "enable" THEN 1 ELSE 0)
        /\ \A n \in OtherDemcrBits : Bit(v, n) = Bit(word, n)

OtherBits(word) == word - Bit(word, TrcenaBit) * (2 ^ TrcenaBit)

\* The DEMCR transactions of one call: one read, and after a read that
\* succeeded one write of the word read with only the trace-enable bit changed.
ReadThenWrite(op, tx, returned) ==
    /\ Len(tx) <= 2
    /\ returned => Len(tx) >= 1
    /\ Len(tx) >= 1 => tx[1].kind = "read"
    /\ (returned /\ Len(tx) = 1) => ~tx[1].ok
    /\ Len(tx) = 2 =>
          /\ tx[1].ok
          /\ tx[2].kind = "write"
          /\ OtherBits(tx[2].value) = OtherBits(tx[1].value)
          /\ \A n \in OtherDemcrBits : Bit(tx[2].value, n) = Bit(tx[1].value, n)
          /\ Bit(tx[2].value, TrcenaBit) = (IF op = "enable" THEN 1 ELSE 0)

\* C19: every enable_tracing and disable_swv call reads DEMCR once and then,
\* unless the read failed, writes it once; the word written equals the word
\* read in every bit but the trace-enable bit.
C19_OnlyTraceEnableBit ==
    /\ \A k \in 1..Len(dhist) : ReadThenWrite(dhist[k].op, dhist[k].tx, TRUE)
    /\ \A t \in InFlight : ReadThenWrite(dop[t], dtx[t], dpc[t] = "done")

C19_Witness ==
    /\ Len(dhist) = 2
    /\ Len(dhist[1].tx) = 1
    /\ dhist[2].op = "enable"
    /\ dhist[2].res = Ok
    /\ \A n \in OtherDemcrBits : Bit(dhist[2].tx[1].value, n) = 1
    /\ Bit(dhist[2].tx[1].value, TrcenaBit) = 0

(***************************************************************************)
(* Properties of find_component.                                           *)
(***************************************************************************)
\* C13: find_component returns the first component of the requested type in
\* list order, fails with ComponentNotFound carrying the requested type
\* exactly when the list holds no component of that type, and issues no
\* driver call and no probe transaction.
C13_FirstMatch ==
    wanted # "none" =>
        LET hits == {i \in 1..Len(components) : components[i] = wanted}
        IN  /\ found.tag \in {"Ok", "ComponentNotFound"}
            /\ found.tag = "ComponentNotFound" <=> hits = {}
            /\ hits = {} => found.kind = wanted
            /\ hits # {} =>
                  /\ found.index \in hits
                  /\ \A j \in 1..(found.index - 1) : components[j] # wanted
            /\ log = <<>>
            /\ reg_tx = <<>>
            /\ \A t \in Callers : dtx[t] = <<>>

C13_Witness ==
    /\ found.tag = "Ok"
    /\ found.index = 2
    /\ \E j \in 3..Len(components) : components[j] = wanted

(***************************************************************************)
(* Properties of DebugRegister.                                            *)
(***************************************************************************)
\* C20: every load, store, load_unit and store_unit call issues exactly one
\* probe transaction, a read for the loads and a write for the stores, at
\* ADDRESS for load and store and at ADDRESS + 16 * unit for the unit
\* variants, whatever the unit index; the call returns Ok when the
\* transaction succeeds and the probe error when it fails.
C20_OneTransaction ==
    reg_call # None =>
        /\ Len(reg_tx) = 1
        /\ reg_tx[1].kind = (IF reg_call.fn \in {"load", "load_unit"} THEN "read" ELSE "write")
        /\ reg_tx[1].address = reg_call.address + UnitStride * reg_call.unit
        /\ reg_tx[1].ok <=> reg_res.tag = "Ok"
        /\ ~reg_tx[1].ok => reg_res = ProbeError


=============================================================================
